---- MODULE Spec2Model ----
(***************************************************************************)
(* A model of whowhatbench/wwb.py: the command-line driver that compares   *)
(* a base and a target causal language model.                              *)
(*                                                                         *)
(*   Spec         main(): check_args, load_prompts, load_tokenizer, the    *)
(*                ground-truth / base-model branch, scoring, CSV output    *)
(*                and the verbose report, one action per statement that    *)
(*                calls out of the script.                                 *)
(*   SpecPrompts  load_prompts() on bounded --dataset strings.             *)
(*   SpecDiff     diff_strings() on bounded pairs of strings, one action   *)
(*                per opcode branch of its loop.                           *)
(*                                                                         *)
(* An optional argument (argparse default None) is a tuple: <<>> is None   *)
(* and <<v>> is the value v.  Strings that the code takes apart            *)
(* (--dataset, the operands of diff_strings) are sequences of characters;  *)
(* strings that it only passes on are TLA+ strings.                        *)
(***************************************************************************)
EXTENDS Integers, Sequences, FiniteSets, TLC

VARIABLES
    args,           \* the argparse namespace
    pc,             \* position in main / load_prompts / diff_strings
    fs,             \* the file system: does --gt-data exist, does --output exist, CSVs written
    calls,          \* the calls made out of the script, in order
    prompts,        \* main's local `prompts`
    tokenizer,      \* main's local `tokenizer`
    base_model,     \* main's local `base_model`
    target_model,   \* main's local `target_model`
    evaluator,      \* main's local `evaluator`
    a,              \* diff_strings' first operand
    b,              \* diff_strings' second operand
    use_loguru_colors,  \* diff_strings' keyword argument
    opcodes,        \* the opcodes diff_strings has still to visit
    output,         \* diff_strings' list `output`
    result          \* the string diff_strings returns

vars == <<args, pc, fs, calls, prompts, tokenizer, base_model, target_model,
          evaluator, a, b, use_loguru_colors, opcodes, output, result>>

mainVars == <<prompts, tokenizer, base_model, target_model, evaluator>>
diffVars == <<a, b, use_loguru_colors, opcodes, output, result>>

(***************************************************************************)
(* Python values                                                           *)
(***************************************************************************)
None == <<>>

Some(v) == <<v>>

Val(o) == o[1]

\* Python truthiness of an Optional[str] whose value is a TLA+ string:
\* None and "" are falsy.
Truthy(o) == o # None /\ Val(o) # ""

(***************************************************************************)
(* Bounds                                                                  *)
(***************************************************************************)
\* longest --dataset string
MaxDataset == 3

\* longest operand of diff_strings
MaxStr == 3

\* rows of a loaded dataset
NumRows == 2

RECURSIVE SeqsUpTo(_, _)
SeqsUpTo(S, n) ==
    IF n = 0 THEN { <<>> }
    ELSE LET shorter == SeqsUpTo(S, n - 1)
         IN  shorter \cup { Append(s, c) : s \in { t \in shorter : Len(t) = n - 1 }, c \in S }

(***************************************************************************)
(* load_prompts                                                            *)
(***************************************************************************)
\* str.split(",", 1): cut at the first comma only
RECURSIVE PySplit_MaxSplit1(_)
PySplit_MaxSplit1(s) ==
    IF \A i \in 1..Len(s) : s[i] # ","
    THEN << s >>
    ELSE LET i == CHOOSE k \in 1..Len(s) :
                      s[k] = "," /\ \A m \in 1..(k - 1) : s[m] # ","
         IN  << SubSeq(s, 1, i - 1), SubSeq(s, i + 1, Len(s)) >>

\* str.split(","): the pieces between the commas, all of them.
RECURSIVE PySplit(_)
PySplit(s) ==
    IF \A i \in 1..Len(s) : s[i] # ","
    THEN << s >>
    ELSE LET i == CHOOSE k \in 1..Len(s) :
                      s[k] = "," /\ \A m \in 1..(k - 1) : s[m] # ","
         IN  << SubSeq(s, 1, i - 1) >> \o PySplit(SubSeq(s, i + 1, Len(s)))

\* datasets.load_dataset(path=, name=, split=): the table it returns, a column
\* per field; every cell carries what it was loaded from.
load_dataset(path, name, split) ==
    [ field \in {"questions", "context"} |->
        [ r \in 1..NumRows |->
            [ path |-> path, name |-> name, split |-> split, field |-> field, row |-> r ] ] ]

DefaultSplit == "validation"

SplitOf(ar) == IF ar.split # None THEN Val(ar.split) ELSE DefaultSplit

HasComma(s) == \E i \in 1..Len(s) : s[i] = ","

PathOf(ds) == IF HasComma(ds) THEN PySplit(ds)[1] ELSE ds

NameOf(ds) == IF HasComma(ds) THEN Some(PySplit(ds)[2]) ELSE None

\* load_prompts(args): the value returned and the calls made.
LoadPrompts(ar) ==
    IF ar.dataset = None
    THEN [ ret |-> None, made |-> <<>> ]
    ELSE LET ds    == Val(ar.dataset)
             split == SplitOf(ar)
             path  == PathOf(ds)
             name  == NameOf(ds)
             data  == load_dataset(path, name, split)
             res   == data[ar.dataset_field]
         IN  [ ret  |-> Some([ questions |-> res ]),
               made |-> << [ op |-> "load_dataset",
                             arg |-> [ path |-> path, name |-> name, split |-> split ] ] >> ]

(***************************************************************************)
(* check_args, load_tokenizer, load_model                                  *)
(***************************************************************************)
\* check_args without its second assertion
CheckArgsPasses_NoGtAssert(ar) ==
    ~ (ar.base_model = None /\ ar.target_model = None)

\* check_args(args) returns (TRUE) or raises AssertionError (FALSE).
CheckArgsPasses(ar) ==
    /\ ~ (ar.base_model = None /\ ar.target_model = None)
    /\ ~ (ar.base_model = None /\ ar.gt_data = None)

\* load_tokenizer with the fallbacks in the other order
TokenizerId_TargetFirst(ar) ==
    IF ar.tokenizer # None THEN ar.tokenizer
    ELSE IF ar.target_model # None THEN ar.target_model
    ELSE ar.base_model

\* The identifier load_tokenizer hands to AutoTokenizer.from_pretrained.
TokenizerId(ar) ==
    IF ar.tokenizer # None THEN ar.tokenizer
    ELSE IF ar.base_model # None THEN ar.base_model
    ELSE ar.target_model

\* load_model(model_id, ...): from_pretrained of either backend raises on a
\* model_id of None (it is not a ValueError, so the retry does not catch it).
LoadModelRaises(model_id) == model_id = None

\* the ground-truth file used only when no base model is given
UseGtData_OnlyWithoutBase(ar, files) ==
    Truthy(ar.gt_data) /\ files.gt /\ ar.base_model = None

\* `args.gt_data and os.path.exists(args.gt_data)`
UseGtData(ar, files) == Truthy(ar.gt_data) /\ files.gt

\* `if args.gt_data:` after the Evaluator was built from the base model
WantsDump(ar) == Truthy(ar.gt_data)

\* `if args.target_model:`
WantsTarget(ar) == Truthy(ar.target_model)

\* `if args.output is not None:`
WantsOutput_NotNone(ar) == ar.output # None

\* `if args.output:`
WantsOutput(ar) == Truthy(ar.output)

\* `if args.verbose:`
WantsVerbose(ar) == ar.verbose

PerQuestionCsv == "metrics_per_qustion.csv"

MetricsCsv == "metrics.csv"

Call(op, arg) == [ op |-> op, arg |-> arg ]

(***************************************************************************)
(* main                                                                    *)
(***************************************************************************)
OptStr(S) == { None } \cup { Some(s) : s \in S }

DatasetChars == { "d", "," }

ArgSpace ==
    [ base_model    : OptStr({ "base" }),
      target_model  : OptStr({ "", "target" }),
      tokenizer     : OptStr({ "tok" }),
      gt_data       : OptStr({ "", "gt.csv" }),
      dataset       : { None, Some(<< "d", ",", "n" >>) },
      dataset_field : { "questions" },
      split         : { None },
      output        : OptStr({ "", "out" }),
      verbose       : BOOLEAN ]

NoDiff ==
    /\ a = <<>>
    /\ b = <<>>
    /\ use_loguru_colors = FALSE
    /\ opcodes = <<>>
    /\ output = <<>>
    /\ result = <<>>

NoLocals ==
    /\ prompts = None
    /\ tokenizer = None
    /\ base_model = None
    /\ target_model = None
    /\ evaluator = None

\* The state when main is entered: any command line, any state of the two
\* paths the run looks at (a path that is "" names no file).
Init ==
    /\ args \in ArgSpace
    /\ pc = "check_args"
    /\ fs \in [ gt : BOOLEAN, dir : BOOLEAN, csv : { {} } ]
    /\ fs.gt => Truthy(args.gt_data)
    /\ fs.dir => Truthy(args.output)
    /\ calls = <<>>
    /\ NoLocals
    /\ NoDiff

\* line 229
CheckArgs ==
    /\ pc = "check_args"
    /\ pc' = IF CheckArgsPasses(args) THEN "load_prompts" ELSE "AssertionError"
    /\ UNCHANGED <<args, fs, calls, mainVars, diffVars>>

\* line 231
MainLoadPrompts ==
    /\ pc = "load_prompts"
    /\ prompts' = LoadPrompts(args).ret
    /\ calls' = calls \o LoadPrompts(args).made
    /\ pc' = "load_tokenizer"
    /\ UNCHANGED <<args, fs, tokenizer, base_model, target_model, evaluator, diffVars>>

\* line 232
MainLoadTokenizer ==
    /\ pc = "load_tokenizer"
    /\ calls' = Append(calls, Call("AutoTokenizer.from_pretrained", TokenizerId(args)))
    /\ tokenizer' = Some([ tokenizer_of |-> TokenizerId(args) ])
    /\ pc' = "gt_branch"
    /\ UNCHANGED <<args, fs, prompts, base_model, target_model, evaluator, diffVars>>

\* lines 233-242: the ground truth is read from the file
EvaluatorFromGt ==
    /\ pc = "gt_branch"
    /\ UseGtData(args, fs)
    /\ calls' = calls \o << Call("os.path.exists", [ path |-> args.gt_data, ret |-> fs.gt, site |-> "gt_data" ]),
                            Call("Evaluator", [ base_model |-> None, gt_data |-> args.gt_data ]) >>
    /\ evaluator' = Some([ base_model |-> None, gt_data |-> args.gt_data,
                           test_data |-> prompts, tokenizer |-> tokenizer, scored |-> FALSE ])
    /\ pc' = "target_branch"
    /\ UNCHANGED <<args, fs, prompts, tokenizer, base_model, target_model, diffVars>>

\* lines 233, 244: the base model is loaded
LoadBaseModel ==
    /\ pc = "gt_branch"
    /\ ~ UseGtData(args, fs)
    /\ calls' = calls
                 \o (IF Truthy(args.gt_data)
                     THEN << Call("os.path.exists", [ path |-> args.gt_data, ret |-> fs.gt, site |-> "gt_data" ]) >>
                     ELSE <<>>)
                 \o << Call("load_model", [ model_id |-> args.base_model, site |-> "base" ]) >>
    /\ IF LoadModelRaises(args.base_model)
       THEN /\ pc' = "raised"
            /\ UNCHANGED base_model
       ELSE /\ pc' = "base_evaluator"
            /\ base_model' = Some([ model_of |-> args.base_model ])
    /\ UNCHANGED <<args, fs, prompts, tokenizer, target_model, evaluator, diffVars>>

\* lines 245-252
EvaluatorFromBase ==
    /\ pc = "base_evaluator"
    /\ calls' = Append(calls, Call("Evaluator", [ base_model |-> base_model, gt_data |-> None ]))
    /\ evaluator' = Some([ base_model |-> base_model, gt_data |-> None,
                           test_data |-> prompts, tokenizer |-> tokenizer, scored |-> FALSE ])
    /\ pc' = "dump_gt"
    /\ UNCHANGED <<args, fs, prompts, tokenizer, base_model, target_model, diffVars>>

\* lines 253-255: evaluator.dump_gt writes the file; base_model is deleted
DumpGt ==
    /\ pc = "dump_gt"
    /\ IF WantsDump(args)
       THEN /\ calls' = Append(calls, Call("dump_gt", [ path |-> args.gt_data, existed |-> fs.gt ]))
            /\ fs' = [ fs EXCEPT !.gt = TRUE ]
       ELSE UNCHANGED <<calls, fs>>
    /\ base_model' = None
    /\ pc' = "target_branch"
    /\ UNCHANGED <<args, prompts, tokenizer, target_model, evaluator, diffVars>>

\* lines 257-258
LoadTargetModel ==
    /\ pc = "target_branch"
    /\ WantsTarget(args)
    /\ calls' = Append(calls, Call("load_model", [ model_id |-> args.target_model, site |-> "target" ]))
    /\ IF LoadModelRaises(args.target_model)
       THEN /\ pc' = "raised"
            /\ UNCHANGED target_model
       ELSE /\ pc' = "score"
            /\ target_model' = Some([ model_of |-> args.target_model ])
    /\ UNCHANGED <<args, fs, prompts, tokenizer, base_model, evaluator, diffVars>>

\* line 257, the branch not taken
SkipTarget ==
    /\ pc = "target_branch"
    /\ ~ WantsTarget(args)
    /\ pc' = "verbose_branch"
    /\ UNCHANGED <<args, fs, calls, mainVars, diffVars>>

\* lines 259-261
Score ==
    /\ pc = "score"
    /\ calls' = Append(calls, Call("score", [ model |-> target_model ]))
    /\ evaluator' = Some([ Val(evaluator) EXCEPT !.scored = TRUE ])
    /\ pc' = IF WantsOutput(args) THEN "write_output" ELSE "verbose_branch"
    /\ UNCHANGED <<args, fs, prompts, tokenizer, base_model, target_model, diffVars>>

\* lines 263-269
WriteOutput ==
    /\ pc = "write_output"
    /\ calls' = calls
                 \o << Call("os.path.exists", [ path |-> args.output, ret |-> fs.dir, site |-> "output" ]) >>
                 \o (IF ~ fs.dir
                     THEN << Call("os.mkdir", [ path |-> args.output, existed |-> fs.dir ]) >>
                     ELSE <<>>)
                 \o << Call("to_csv", [ dir |-> args.output, file |-> PerQuestionCsv ]),
                       Call("to_csv", [ dir |-> args.output, file |-> MetricsCsv ]) >>
    /\ fs' = [ fs EXCEPT !.dir = TRUE, !.csv = { PerQuestionCsv, MetricsCsv } ]
    /\ pc' = "verbose_branch"
    /\ UNCHANGED <<args, mainVars, diffVars>>

\* lines 271-289
WorstExamples ==
    /\ pc = "verbose_branch"
    /\ WantsVerbose(args)
    /\ calls' = Append(calls, Call("worst_examples",
                                   [ top_k |-> 5, metric |-> "similarity",
                                     scored |-> Val(evaluator).scored ]))
    /\ pc' = "done"
    /\ UNCHANGED <<args, fs, mainVars, diffVars>>

\* line 271, the branch not taken
SkipVerbose ==
    /\ pc = "verbose_branch"
    /\ ~ WantsVerbose(args)
    /\ pc' = "done"
    /\ UNCHANGED <<args, fs, calls, mainVars, diffVars>>

Next ==
    \/ CheckArgs
    \/ MainLoadPrompts
    \/ MainLoadTokenizer
    \/ EvaluatorFromGt
    \/ LoadBaseModel
    \/ EvaluatorFromBase
    \/ DumpGt
    \/ LoadTargetModel
    \/ SkipTarget
    \/ Score
    \/ WriteOutput
    \/ WorstExamples
    \/ SkipVerbose

Spec == Init /\ [][Next]_vars

(***************************************************************************)
(* Properties of main                                                      *)
(***************************************************************************)
CallsOf(op) == { i \in 1..Len(calls) : calls[i].op = op }

BaseLoads == { i \in CallsOf("load_model") : calls[i].arg.site = "base" }

TargetLoads == { i \in CallsOf("load_model") : calls[i].arg.site = "target" }

PassedCheckArgs == pc \notin { "check_args", "AssertionError" }

\* The check of line 233 was made and found the --gt-data file.
GtDataFoundAtCheck ==
    \E i \in CallsOf("os.path.exists") :
        calls[i].arg.site = "gt_data" /\ calls[i].arg.path = args.gt_data /\ calls[i].arg.ret

\* C1: in a run that passed check_args, once --gt-data was found to exist the
\* base model is never loaded and the Evaluator is the one built with
\* base_model=None and gt_data=args.gt_data, whether or not --base-model is given.
C1_GtDataSkipsBaseModel ==
    (PassedCheckArgs /\ GtDataFoundAtCheck) =>
        /\ BaseLoads = {}
        /\ base_model = None
        /\ Cardinality(CallsOf("Evaluator")) = 1
        /\ \A i \in CallsOf("Evaluator") :
              calls[i].arg = [ base_model |-> None, gt_data |-> args.gt_data ]
        /\ evaluator # None
        /\ Val(evaluator).base_model = None
        /\ Val(evaluator).gt_data = args.gt_data

C1_Witness ==
    /\ pc = "done"
    /\ GtDataFoundAtCheck
    /\ args.base_model # None
    /\ evaluator # None

\* Whether the --gt-data file was missing when the run started: the file
\* changes only by dump_gt, which records what it found.
GtMissingAtStart ==
    IF CallsOf("dump_gt") = {}
    THEN ~ fs.gt
    ELSE \E i \in CallsOf("dump_gt") :
            /\ \A j \in CallsOf("dump_gt") : i <= j
            /\ ~ calls[i].arg.existed

\* C2: a run that passed check_args ends with dump_gt(args.gt_data) called
\* exactly once when --gt-data is given and the file was missing, after the
\* Evaluator was built from the loaded base model and before the target model
\* is loaded or scored; and with dump_gt never called when --gt-data is
\* absent or the file existed.
C2_DumpGtExactlyOnce ==
    (pc \in { "done", "raised" }) =>
        /\ (args.gt_data # None /\ GtMissingAtStart) =>
              /\ Cardinality(CallsOf("dump_gt")) = 1
              /\ \A d \in CallsOf("dump_gt") :
                    /\ calls[d].arg.path = args.gt_data
                    /\ \E e \in CallsOf("Evaluator") :
                          e < d /\ calls[e].arg.base_model # None
                    /\ \A t \in TargetLoads \cup CallsOf("score") : d < t
        /\ (args.gt_data = None \/ ~ GtMissingAtStart) => CallsOf("dump_gt") = {}

\* C3: check_args raises exactly when --base-model and --target-model are both
\* absent or --base-model and --gt-data are both absent, and when it raises
\* nothing was loaded, constructed or written.
C3_CheckArgs ==
    /\ pc # "check_args" =>
          ( pc = "AssertionError"
            <=> \/ { args.base_model, args.target_model } = { None }
                \/ { args.base_model, args.gt_data } = { None } )
    /\ pc = "AssertionError" =>
          /\ calls = <<>>
          /\ NoLocals
          /\ fs.csv = {}

C3_Witness ==
    /\ pc = "AssertionError"
    /\ args.base_model = None
    /\ args.gt_data = None
    /\ args.target_model # None

\* C4: the tokenizer is loaded from --tokenizer if given, else from
\* --base-model if given, else from --target-model; the identifier is never
\* None, and a run that passed check_args loads exactly one tokenizer.
C4_LoadTokenizer ==
    /\ \A i \in CallsOf("AutoTokenizer.from_pretrained") :
          /\ args.tokenizer # None => calls[i].arg = args.tokenizer
          /\ (args.tokenizer = None /\ args.base_model # None) => calls[i].arg = args.base_model
          /\ (args.tokenizer = None /\ args.base_model = None) => calls[i].arg = args.target_model
          /\ calls[i].arg # None
    /\ Cardinality(CallsOf("AutoTokenizer.from_pretrained")) =
          (IF pc \in { "check_args", "AssertionError", "load_prompts", "load_tokenizer" } THEN 0 ELSE 1)

C4_Witness ==
    /\ pc = "done"
    /\ args.tokenizer = None
    /\ args.base_model = None
    /\ \E i \in 1..Len(calls) :
          calls[i] = Call("AutoTokenizer.from_pretrained", args.target_model)

BothCsv == { PerQuestionCsv, MetricsCsv }

CsvCalls(file) == { i \in CallsOf("to_csv") : calls[i].arg = [ dir |-> args.output, file |-> file ] }

\* C6 as stated: a completed run has written the two CSV files exactly when
\* --target-model and --output were both given.
C6_CsvIffBothGiven ==
    pc = "done" =>
        (fs.csv = BothCsv <=> (args.target_model # None /\ args.output # None))

\* C6, amended: the two CSV files are written into --output exactly when
\* --target-model and --output are both non-empty and score(target_model) has
\* returned; the directory is created only when it did not exist; a run where
\* either is absent or empty creates no directory and writes no CSV.
C6_CsvOutput ==
    /\ fs.csv \in { {}, BothCsv }
    /\ fs.csv = BothCsv =>
          /\ Truthy(args.target_model)
          /\ Truthy(args.output)
          /\ \A f \in BothCsv :
                /\ Cardinality(CsvCalls(f)) = 1
                /\ \A w \in CsvCalls(f) : \E s \in CallsOf("score") : s < w
    /\ fs.csv = {} => CallsOf("to_csv") = {} /\ CallsOf("os.mkdir") = {}
    /\ ( /\ CallsOf("score") # {}
         /\ Truthy(args.output)
         /\ pc \in { "verbose_branch", "done" } ) => fs.csv = BothCsv
    /\ Cardinality(CallsOf("os.mkdir")) <= 1
    /\ \A m \in CallsOf("os.mkdir") :
          /\ ~ calls[m].arg.existed
          /\ calls[m].arg.path = args.output
          /\ \E s \in CallsOf("score") : s < m
    /\ ~ (Truthy(args.target_model) /\ Truthy(args.output)) =>
          /\ fs.csv = {}
          /\ CallsOf("to_csv") = {}
          /\ CallsOf("os.mkdir") = {}

C6_Witness ==
    /\ pc = "done"
    /\ fs.csv = BothCsv
    /\ CallsOf("os.mkdir") # {}
    /\ CallsOf("score") # {}

\* C8: worst_examples(top_k=5, metric="similarity") is called only when
\* --verbose is set, at most once, and never before score(target_model) has
\* completed in the same run.
C8_WorstExamplesAfterScore ==
    /\ Cardinality(CallsOf("worst_examples")) <= 1
    /\ \A w \in CallsOf("worst_examples") :
          /\ args.verbose
          /\ calls[w].arg.top_k = 5
          /\ calls[w].arg.metric = "similarity"
          /\ \E s \in CallsOf("score") : s < w

(***************************************************************************)
(* load_prompts on its own                                                 *)
(***************************************************************************)
PromptArgSpace ==
    [ base_model    : { None },
      target_model  : { None },
      tokenizer     : { None },
      gt_data       : { None },
      dataset       : { None } \cup { Some(s) : s \in SeqsUpTo(DatasetChars, MaxDataset) },
      dataset_field : { "questions", "context" },
      split         : OptStr({ "", "train" }),
      output        : { None },
      verbose       : { FALSE } ]

NoFiles == [ gt |-> FALSE, dir |-> FALSE, csv |-> {} ]

InitPrompts ==
    /\ args \in PromptArgSpace
    /\ pc = "load_prompts"
    /\ fs = NoFiles
    /\ calls = <<>>
    /\ NoLocals
    /\ NoDiff

\* lines 51-70, called and returned
LoadPromptsCall ==
    /\ pc = "load_prompts"
    /\ prompts' = LoadPrompts(args).ret
    /\ calls' = calls \o LoadPrompts(args).made
    /\ pc' = "returned"
    /\ UNCHANGED <<args, fs, tokenizer, base_model, target_model, evaluator, diffVars>>

NextPrompts == LoadPromptsCall

SpecPrompts == InitPrompts /\ [][NextPrompts]_vars

\* The places of the first and of the second comma of s, Len(s) + 1 when
\* there is none.
CommaAfter(s, from) ==
    IF \E i \in (from + 1)..Len(s) : s[i] = ","
    THEN CHOOSE i \in (from + 1)..Len(s) :
            s[i] = "," /\ \A m \in (from + 1)..(i - 1) : s[m] # ","
    ELSE Len(s) + 1

\* C5: without --dataset load_prompts returns None and calls nothing, whatever
\* --split and --dataset-field are; with --dataset it calls load_dataset once
\* with path = the text before the first comma, name = the text between the
\* first and the second comma (None without a comma) and split = --split if
\* given else "validation", and returns {"questions": the --dataset-field
\* column, in dataset order}.
C5_LoadPrompts ==
    pc = "returned" =>
        IF args.dataset = None
        THEN prompts = None /\ calls = <<>>
        ELSE LET ds == Val(args.dataset)
                 c1 == CommaAfter(ds, 0)
                 c2 == CommaAfter(ds, c1)
                 path  == SubSeq(ds, 1, c1 - 1)
                 name  == IF c1 > Len(ds) THEN None ELSE Some(SubSeq(ds, c1 + 1, c2 - 1))
                 split == IF args.split = None THEN "validation" ELSE Val(args.split)
             IN  /\ Len(calls) = 1
                 /\ calls[1].op = "load_dataset"
                 /\ calls[1].arg.path = path
                 /\ calls[1].arg.name = name
                 /\ calls[1].arg.split = split
                 /\ prompts # None
                 /\ DOMAIN Val(prompts) = { "questions" }
                 /\ Len(Val(prompts).questions) = NumRows
                 /\ \A r \in 1..NumRows :
                       Val(prompts).questions[r] =
                           [ path |-> path, name |-> name, split |-> split,
                             field |-> args.dataset_field, row |-> r ]

C5_Witness ==
    /\ pc = "returned"
    /\ args.dataset = Some(<< "d", ",", "," >>)
    /\ args.split = None
    /\ args.dataset_field = "context"
    /\ calls[1].arg = [ path |-> << "d" >>, name |-> Some(<<>>), split |-> "validation" ]

(***************************************************************************)
(* diff_strings                                                            *)
(***************************************************************************)
DiffChars == { "x", "y" }

\* Python's s[lo:hi] for 0 <= lo <= hi <= len(s)
Slice(s, lo, hi) == SubSeq(s, lo + 1, hi)

\* difflib.SequenceMatcher.find_longest_match(alo, ahi, blo, bhi) without junk:
\* the longest block sa[i:i+k] = sb[j:j+k] in the two ranges, of those the one
\* that starts earliest in sa, of those the one that starts earliest in sb;
\* (alo, blo, 0) when no element matches.
find_longest_match(sa, sb, alo, ahi, blo, bhi) ==
    LET blocks == { m \in (alo..ahi) \X (blo..bhi) \X (1..(ahi - alo)) :
                       /\ m[1] + m[3] <= ahi
                       /\ m[2] + m[3] <= bhi
                       /\ Slice(sa, m[1], m[1] + m[3]) = Slice(sb, m[2], m[2] + m[3]) }
    IN  IF blocks = {}
        THEN << alo, blo, 0 >>
        ELSE CHOOSE m \in blocks :
                \A n \in blocks :
                    \/ m[3] > n[3]
                    \/ m[3] = n[3] /\ m[1] < n[1]
                    \/ m[3] = n[3] /\ m[1] = n[1] /\ m[2] <= n[2]

\* The first half of get_matching_blocks: the longest match of the range, then
\* the ranges to its left and to its right, in order of position.
RECURSIVE MatchRange(_, _, _, _, _, _)
MatchRange(sa, sb, alo, ahi, blo, bhi) ==
    LET m == find_longest_match(sa, sb, alo, ahi, blo, bhi)
        i == m[1]
        j == m[2]
        k == m[3]
    IN  IF k = 0
        THEN <<>>
        ELSE (IF alo < i /\ blo < j THEN MatchRange(sa, sb, alo, i, blo, j) ELSE <<>>)
             \o << m >>
             \o (IF i + k < ahi /\ j + k < bhi
                 THEN MatchRange(sa, sb, i + k, ahi, j + k, bhi)
                 ELSE <<>>)

\* The second half: adjacent blocks are merged; `cur` is (i1, j1, k1).
RECURSIVE Collapse(_, _)
Collapse(blocks, cur) ==
    IF blocks = <<>>
    THEN IF cur[3] # 0 THEN << cur >> ELSE <<>>
    ELSE LET nxt == Head(blocks)
         IN  IF cur[1] + cur[3] = nxt[1] /\ cur[2] + cur[3] = nxt[2]
             THEN Collapse(Tail(blocks), << cur[1], cur[2], cur[3] + nxt[3] >>)
             ELSE (IF cur[3] # 0 THEN << cur >> ELSE <<>>) \o Collapse(Tail(blocks), nxt)

\* get_matching_blocks(): the merged blocks and the closing (len(a), len(b), 0)
get_matching_blocks(sa, sb) ==
    Append(Collapse(MatchRange(sa, sb, 0, Len(sa), 0, Len(sb)), << 0, 0, 0 >>),
           << Len(sa), Len(sb), 0 >>)

Opcode(tag, a0, a1, b0, b1) == [ tag |-> tag, a0 |-> a0, a1 |-> a1, b0 |-> b0, b1 |-> b1 ]

\* The loop of get_opcodes() over the matching blocks, from (i, j).
RECURSIVE OpcodesFrom(_, _, _)
OpcodesFrom(blocks, i, j) ==
    IF blocks = <<>>
    THEN <<>>
    ELSE LET ai   == Head(blocks)[1]
             bj   == Head(blocks)[2]
             size == Head(blocks)[3]
             tag  == IF i < ai /\ j < bj THEN "replace"
                     ELSE IF i < ai THEN "delete"
                     ELSE IF j < bj THEN "insert"
                     ELSE ""
         IN  (IF tag # "" THEN << Opcode(tag, i, ai, j, bj) >> ELSE <<>>)
             \o (IF size # 0 THEN << Opcode("equal", ai, ai + size, bj, bj + size) >> ELSE <<>>)
             \o OpcodesFrom(Tail(blocks), ai + size, bj + size)

\* difflib.SequenceMatcher(None, sa, sb).get_opcodes()
get_opcodes(sa, sb) == OpcodesFrom(get_matching_blocks(sa, sb), 0, 0)

\* The colour markers; each escape sequence is one element of a string.
green == IF use_loguru_colors THEN "<GREEN><black>" ELSE "\\x1b[38;5;16;48;5;2m"

red == IF use_loguru_colors THEN "<RED><black>" ELSE "\\x1b[38;5;16;48;5;1m"

endgreen == IF use_loguru_colors THEN "</black></GREEN>" ELSE "\\x1b[0m"

endred == IF use_loguru_colors THEN "</black></RED>" ELSE "\\x1b[0m"

\* What each branch of the loop appends to `output`.
EqualSegments(op) == << Slice(a, op.a0, op.a1) >>

InsertSegments(op) == << << green >> \o Slice(b, op.b0, op.b1) \o << endgreen >> >>

DeleteSegments(op) == << << red >> \o Slice(a, op.a0, op.a1) \o << endred >> >>

\* the two appends of the replace branch in the other order
ReplaceSegments_RedFirst(op) ==
    << << red >> \o Slice(a, op.a0, op.a1) \o << endred >>,
       << green >> \o Slice(b, op.b0, op.b1) \o << endgreen >> >>

ReplaceSegments(op) ==
    << << green >> \o Slice(b, op.b0, op.b1) \o << endgreen >>,
       << red >> \o Slice(a, op.a0, op.a1) \o << endred >> >>

\* "".join(output)
RECURSIVE Join(_)
Join(parts) == IF parts = <<>> THEN <<>> ELSE Head(parts) \o Join(Tail(parts))

InitDiff ==
    /\ a \in SeqsUpTo(DiffChars, MaxStr)
    /\ b \in SeqsUpTo(DiffChars, MaxStr)
    /\ use_loguru_colors \in BOOLEAN
    /\ opcodes = <<>>
    /\ output = <<>>
    /\ result = <<>>
    /\ pc = "diff_strings"
    /\ args \in { r \in PromptArgSpace :
                    r.dataset = None /\ r.split = None /\ r.dataset_field = "questions" }
    /\ fs = NoFiles
    /\ calls = <<>>
    /\ NoLocals

\* lines 201-212
DiffStart ==
    /\ pc = "diff_strings"
    /\ opcodes' = get_opcodes(a, b)
    /\ output' = <<>>
    /\ pc' = "for_opcode"
    /\ UNCHANGED <<args, fs, calls, mainVars, a, b, use_loguru_colors, result>>

DiffVisit(tag, segments) ==
    /\ pc = "for_opcode"
    /\ opcodes # <<>>
    /\ Head(opcodes).tag = tag
    /\ output' = output \o segments
    /\ opcodes' = Tail(opcodes)
    /\ UNCHANGED <<args, pc, fs, calls, mainVars, a, b, use_loguru_colors, result>>

\* lines 215-216
DiffEqual == DiffVisit("equal", EqualSegments(Head(opcodes)))

\* lines 217-218
DiffInsert == DiffVisit("insert", InsertSegments(Head(opcodes)))

\* lines 219-220
DiffDelete == DiffVisit("delete", DeleteSegments(Head(opcodes)))

\* lines 221-223
DiffReplace == DiffVisit("replace", ReplaceSegments(Head(opcodes)))

\* line 224
DiffReturn ==
    /\ pc = "for_opcode"
    /\ opcodes = <<>>
    /\ result' = Join(output)
    /\ pc' = "returned"
    /\ UNCHANGED <<args, fs, calls, mainVars, a, b, use_loguru_colors, opcodes, output>>

NextDiff ==
    \/ DiffStart
    \/ DiffEqual
    \/ DiffInsert
    \/ DiffDelete
    \/ DiffReplace
    \/ DiffReturn

SpecDiff == InitDiff /\ [][NextDiff]_vars

IsGreen(seg) == Len(seg) >= 2 /\ seg[1] = green /\ seg[Len(seg)] = endgreen

IsRed(seg) == Len(seg) >= 2 /\ seg[1] = red /\ seg[Len(seg)] = endred

IsPlain(seg) == ~ IsGreen(seg) /\ ~ IsRed(seg)

\* The text of a segment, without its markers.
SegText(seg) == IF IsPlain(seg) THEN seg ELSE SubSeq(seg, 2, Len(seg) - 1)

\* The text of the segments of `parts` that are plain or marked `colour`.
RECURSIVE Side(_, _)
Side(parts, colour) ==
    IF parts = <<>>
    THEN <<>>
    ELSE LET seg  == Head(parts)
             mine == \/ IsPlain(seg)
                     \/ colour = "red" /\ IsRed(seg)
                     \/ colour = "green" /\ IsGreen(seg)
         IN  (IF mine THEN SegText(seg) ELSE <<>>) \o Side(Tail(parts), colour)

Markers == { green, red, endgreen, endred }

\* C7: when diff_strings returns, the plain and the red segments of the output
\* spell a, the plain and the green segments spell b, no red segment is
\* directly followed by a green one (a replaced region is green, then red),
\* the returned string is the segments joined, and for a = b it is a itself
\* with no marker in it.
C7_DiffLossless ==
    pc = "returned" =>
        /\ Side(output, "red") = a
        /\ Side(output, "green") = b
        /\ \A k \in 1..(Len(output) - 1) : ~ (IsRed(output[k]) /\ IsGreen(output[k + 1]))
        /\ result = Join(output)
        /\ a = b => (result = a /\ \A k \in 1..Len(result) : result[k] \notin Markers)

C7_Witness ==
    /\ pc = "returned"
    /\ a = << "x", "y", "x" >>
    /\ b = << "y", "y" >>
    /\ \E k \in 1..(Len(output) - 1) : IsGreen(output[k]) /\ IsRed(output[k + 1])
    /\ \E k \in 1..Len(output) : IsPlain(output[k])

====
